---- MODULE Spec2Model ----
(***************************************************************************)
(* The transactions routes of src/src/routes/transactions.ts: six HTTP     *)
(* handlers over one table `transactions(id, title, amount, session_id)`.  *)
(*                                                                         *)
(* Two requests may be in flight at once.  A handler runs on Node's single *)
(* thread and yields only at an `await` of a store call, so a handler with *)
(* one store call is one step, and update and delete, which await twice    *)
(* (existence check, then write), are two steps between which the steps of *)
(* the other request may fall.  A finished request stays in its slot, with *)
(* the reply, until the reply is delivered; delivery touches nothing but   *)
(* the slot and is taken before any other step.  An arriving request takes *)
(* the first free slot: the slots are interchangeable.                     *)
(***************************************************************************)
EXTENDS Integers, Sequences, FiniteSets, TLC

VARIABLES table, nextId, nextSession, deleted, req

vars == <<table, nextId, nextSession, deleted, req>>

(* ------------------------------ bounds --------------------------------- *)

\* rows ever inserted (calls of randomUUID() for a row id)
MaxTx == 2
\* session identifiers ever minted (calls of randomUUID() for a session)
MaxSession == 1

\* the slots of the requests in flight
Slots == {1, 2}

(* --------------------------- identifiers ------------------------------- *)

\* the n-th identifier randomUUID() returns for a row: distinct for distinct n
TxUuid(n) == "t" \o ToString(n)

\* the n-th identifier randomUUID() returns for a session
SessionUuid(n) == "s" \o ToString(n)

\* z.string().uuid(): the well-formed UUID strings
IsUuid(s) == s \in {TxUuid(n) : n \in 1..MaxTx}

\* path parameters a client may send: a malformed one, and well-formed ones
\* (rows that exist, rows that do not exist yet)
PathIds == {"not-a-uuid"} \cup {TxUuid(n) : n \in 1..MaxTx}

(* ----------------------------- cookies --------------------------------- *)

\* request.cookies.sessionId: undefined when the cookie is not sent
NoCookie == [has |-> FALSE, val |-> ""]

CookieOf(v) == [has |-> TRUE, val |-> v]

\* JavaScript's !sessionId: undefined and the empty string are falsy
Falsy(cookie) == ~cookie.has \/ cookie.val = ""

\* what a client may send: no cookie, an empty one, a value the server never
\* issued, or a value it did issue
CookieValues == {"", "forged"} \cup {SessionUuid(n) : n \in 1..MaxSession}

Cookies == {NoCookie} \cup {CookieOf(v) : v \in CookieValues}

\* a client cannot guess a session identifier before the server mints it
Sendable(cookie) ==
  cookie.val \in {"", "forged"} \cup {SessionUuid(n) : n \in 1..nextSession}

NoSetCookie == [set |-> FALSE, value |-> "", path |-> "", maxAge |-> 0]

(* --------------------------- request bodies ---------------------------- *)

Undef == [t |-> "undefined", s |-> "", n |-> 0]

Str(x) == [t |-> "string", s |-> x, n |-> 0]

Num(k) == [t |-> "number", s |-> "", n |-> k]

NoBody == [title |-> Undef, amount |-> Undef, type |-> Undef]

Bodies ==
  { [title |-> Str("Salary"), amount |-> Num(5), type |-> Str("credit")],
    [title |-> Str("Rent"), amount |-> Num(2), type |-> Str("debit")],
    [title |-> Undef, amount |-> Num(5), type |-> Str("credit")],
    [title |-> Str("Rent"), amount |-> Str("2"), type |-> Str("debit")],
    [title |-> Str("Rent"), amount |-> Num(2), type |-> Str("other")] }

\* z.string()
ZString(v) == v.t = "string"

\* z.number()
ZNumber(v) == v.t = "number"

\* z.enum(['credit', 'debit'])
ZEnum(v) == v.t = "string" /\ v.s \in {"credit", "debit"}

\* z.object({ id: z.string().uuid() }).parse(request.params) does not throw
ParamsOk(id) == IsUuid(id)

\* z.object({ title, amount, type }).parse(request.body) does not throw
BodyOk(body) == ZString(body.title) /\ ZNumber(body.amount) /\ ZEnum(body.type)

(* ------------------------------ the store ------------------------------ *)

Row(id, title, amount, sid) ==
  [id |-> id, title |-> title, amount |-> amount, session_id |-> sid]

\* knex('transactions').where('session_id', sid).select('*')
SelectBySession(t, sid) == SelectSeq(t, LAMBDA row : row.session_id = sid)

\* a get-one that forgot session_id in its where clause
SelectByIdOnly(t, id, sid) ==
  LET found == SelectSeq(t, LAMBDA row : row.id = id)
  IN  IF found = <<>> THEN <<>> ELSE <<Head(found)>>

\* knex('transactions').where({ id, session_id }).first()
SelectByIdSession(t, id, sid) ==
  LET found == SelectSeq(t, LAMBDA row : row.id = id /\ row.session_id = sid)
  IN  IF found = <<>> THEN <<>> ELSE <<Head(found)>>

NullSum == [isNull |-> TRUE, n |-> 0]

RECURSIVE SqlSum(_)
\* SUM(amount) over the rows: NULL over no rows
SqlSum(rows) ==
  IF rows = <<>> THEN NullSum
  ELSE LET rest == SqlSum(Tail(rows))
       IN  [isNull |-> FALSE,
            n |-> Head(rows).amount + (IF rest.isNull THEN 0 ELSE rest.n)]

\* a summary that forgot its where clause
SumAllSessions(t, sid) == SqlSum(t)

\* knex('transactions').where('session_id', sid).sum('amount', { as: 'amount' }).first()
SumBySession(t, sid) == SqlSum(SelectBySession(t, sid))

\* a write that stores the amount as sent
SignAdjustUnsigned(type, amount) == amount

\* amount: type === 'credit' ? amount : amount * -1
SignAdjust(type, amount) == IF type = "credit" THEN amount ELSE amount * (-1)

\* knex('transactions').insert({ id, title, amount, session_id })
Insert(t, row) == Append(t, row)

\* an update that forgot id in its where clause
UpdateWhereSessionOnly(t, id, sid, title, amount) ==
  [i \in DOMAIN t |->
     IF t[i].session_id = sid
     THEN [t[i] EXCEPT !.title = title, !.amount = amount]
     ELSE t[i]]

\* an update that inserts the row when none matches
UpdateOrInsert(t, id, sid, title, amount) ==
  IF \E i \in DOMAIN t : t[i].id = id /\ t[i].session_id = sid
  THEN [i \in DOMAIN t |->
          IF t[i].id = id /\ t[i].session_id = sid
          THEN [t[i] EXCEPT !.title = title, !.amount = amount]
          ELSE t[i]]
  ELSE Append(t, [id |-> id, title |-> title, amount |-> amount,
                  session_id |-> sid])

\* knex('transactions').where({ id, session_id }).update({ title, amount })
UpdateWhere(t, id, sid, title, amount) ==
  [i \in DOMAIN t |->
     IF t[i].id = id /\ t[i].session_id = sid
     THEN [t[i] EXCEPT !.title = title, !.amount = amount]
     ELSE t[i]]

\* a delete whose where clause has its two values swapped
DelWhereSwapped(t, id, sid) ==
  SelectSeq(t, LAMBDA row : ~(row.id = sid /\ row.session_id = id))

\* knex('transactions').where({ id, session_id }).del()
DelWhere(t, id, sid) ==
  SelectSeq(t, LAMBDA row : ~(row.id = id /\ row.session_id = sid))

\* the rows a where({ id, session_id }) clause matches
Matching(t, id, sid) == Len(SelectSeq(t, LAMBDA row : row.id = id /\ row.session_id = sid))

(* --------------------------- the requests ------------------------------ *)

\* the options of reply.setCookie: maxAge: 1000 * 60 * 60 * 24 * 7
CookieMaxAge == 1000 * 60 * 60 * 24 * 7

\* reply.setCookie('sessionId', sessionId, { path: '/', maxAge })
SessionCookie(sid) ==
  [set |-> TRUE, value |-> sid, path |-> "/", maxAge |-> CookieMaxAge]

\* a client's slot with no request in it
Idle ==
  [pc |-> "idle", op |-> "", cookie |-> NoCookie, id |-> "", body |-> NoBody,
   status |-> 0, setCookie |-> NoSetCookie, rows |-> <<>>, summary |-> NullSum,
   parses |-> 0, reads |-> 0, writes |-> 0, affected |-> 0, newId |-> "",
   afterDel |-> FALSE]

\* a request as it arrives: the slot records what the handler has read of it
\* so far, here the route and the cookie
Req(op, cookie) == [Idle EXCEPT !.op = op, !.cookie = cookie]

\* the request once the handler has parsed request.params; afterDel records
\* whether a delete of this id under this session had already answered 200
WithParams(q, id) ==
  [q EXCEPT !.id = id, !.parses = q.parses + 1,
            !.afterDel = q.cookie.has /\ <<id, q.cookie.val>> \in deleted]

\* the request once the handler has parsed request.body
WithBody(q, body) == [q EXCEPT !.body = body, !.parses = q.parses + 1]

\* reply.code(status).send(...)
Reply(q, status) == [q EXCEPT !.pc = "done", !.status = status]

\* GET / registered without its preHandler
GuardedButList(op) == op \in {"get", "summary", "update", "delete"}

\* the routes registered with { preHandler: [checkSessionIdExists] }
Guarded(op) == op \in {"list", "get", "summary", "update", "delete"}

\* checkSessionIdExists lets the request through
CheckSessionIdExists(cookie) == cookie.has

\* the preHandler answers before the handler runs
Rejected(op, cookie) == Guarded(op) /\ ~CheckSessionIdExists(cookie)

\* knex refuses to compile a where clause with an undefined value, and the
\* handler's catch answers 500
WhereThrows(cookie) == ~cookie.has

\* no reply is waiting to be delivered
Ready == \A c \in Slots : req[c].pc # "done"

\* slot r is the first free one
Free(r) == req[r].pc = "idle" /\ \A c \in Slots : c < r => req[c].pc # "idle"

\* GET /
List(r, cookie) ==
  /\ Ready /\ Free(r) /\ Sendable(cookie)
  /\ LET q == Req("list", cookie)
     IN  req' = [req EXCEPT ![r] =
           IF Rejected("list", cookie) THEN Reply(q, 401)
           ELSE IF WhereThrows(cookie) THEN Reply(q, 500)
           ELSE [Reply(q, 200) EXCEPT
                   !.reads = 1, !.rows = SelectBySession(table, cookie.val)]]
  /\ UNCHANGED <<table, nextId, nextSession, deleted>>

\* GET /:id
GetOne(r, cookie, id) ==
  /\ Ready /\ Free(r) /\ Sendable(cookie)
  /\ LET q == Req("get", cookie)
         p == WithParams(q, id)
         found == SelectByIdSession(table, id, cookie.val)
     IN  req' = [req EXCEPT ![r] =
           IF Rejected("get", cookie) THEN Reply(q, 401)
           ELSE IF ~ParamsOk(id) THEN Reply(p, 500)
           ELSE IF WhereThrows(cookie) THEN Reply(p, 500)
           ELSE IF found = <<>> THEN [Reply(p, 404) EXCEPT !.reads = 1]
           ELSE [Reply(p, 200) EXCEPT !.reads = 1, !.rows = found]]
  /\ UNCHANGED <<table, nextId, nextSession, deleted>>

\* GET /summary
Summary(r, cookie) ==
  /\ Ready /\ Free(r) /\ Sendable(cookie)
  /\ LET q == Req("summary", cookie)
     IN  req' = [req EXCEPT ![r] =
           IF Rejected("summary", cookie) THEN Reply(q, 401)
           ELSE IF WhereThrows(cookie) THEN Reply(q, 500)
           ELSE [Reply(q, 200) EXCEPT
                   !.reads = 1, !.summary = SumBySession(table, cookie.val)]]
  /\ UNCHANGED <<table, nextId, nextSession, deleted>>

\* a create that mints a session whatever the cookie
SessionAlwaysMinted(cookie) == SessionUuid(nextSession + 1)

\* the session a create stores its row under: the cookie's, or a fresh one
SessionFor(cookie) ==
  IF Falsy(cookie) THEN SessionUuid(nextSession + 1) ELSE cookie.val

\* POST /
Create(r, cookie, body) ==
  /\ Ready /\ Free(r) /\ Sendable(cookie)
  /\ BodyOk(body) => /\ nextId < MaxTx
                     /\ Falsy(cookie) => nextSession < MaxSession
  /\ LET q == Req("create", cookie)
         b == WithBody(q, body)
         sid == SessionFor(cookie)
         id == TxUuid(nextId + 1)
         row == Row(id, body.title.s,
                    SignAdjust(body.type.s, body.amount.n), sid)
     IN  IF Rejected("create", cookie)
         THEN /\ req' = [req EXCEPT ![r] = Reply(q, 401)]
              /\ UNCHANGED <<table, nextId, nextSession>>
         ELSE IF ~BodyOk(body)
         THEN /\ req' = [req EXCEPT ![r] = Reply(b, 500)]
              /\ UNCHANGED <<table, nextId, nextSession>>
         ELSE /\ table' = Insert(table, row)
              /\ nextId' = nextId + 1
              /\ nextSession' = IF Falsy(cookie) THEN nextSession + 1
                                ELSE nextSession
              /\ req' = [req EXCEPT ![r] =
                   [Reply(b, 201) EXCEPT
                      !.writes = 1, !.newId = id,
                      !.setCookie = IF Falsy(cookie) THEN SessionCookie(sid)
                                    ELSE NoSetCookie]]
  /\ UNCHANGED deleted

\* PUT /:id, up to the await of its write
UpdateCheck(r, cookie, id, body) ==
  /\ Ready /\ Free(r) /\ Sendable(cookie)
  /\ LET q == Req("update", cookie)
         p == WithParams(q, id)
         b == WithBody(p, body)
         found == SelectByIdSession(table, id, cookie.val)
     IN  req' = [req EXCEPT ![r] =
           IF Rejected("update", cookie) THEN Reply(q, 401)
           ELSE IF ~ParamsOk(id) THEN Reply(p, 500)
           ELSE IF WhereThrows(cookie) THEN Reply(p, 500)
           ELSE IF found = <<>> THEN [Reply(p, 404) EXCEPT !.reads = 1]
           ELSE IF ~BodyOk(body)
                THEN [Reply(b, 500) EXCEPT !.reads = 1]
           ELSE [b EXCEPT !.pc = "write", !.reads = 1]]
  /\ UNCHANGED <<table, nextId, nextSession, deleted>>

\* PUT /:id, its write and its reply
UpdateWrite(r) ==
  /\ Ready /\ req[r].pc = "write" /\ req[r].op = "update"
  /\ LET q == req[r]
         sid == q.cookie.val
     IN  /\ table' = UpdateWhere(table, q.id, sid, q.body.title.s,
                                 SignAdjust(q.body.type.s, q.body.amount.n))
         /\ req' = [req EXCEPT ![r] =
              [Reply(q, 200) EXCEPT
                 !.writes = 1, !.affected = Matching(table, q.id, sid)]]
  /\ UNCHANGED <<nextId, nextSession, deleted>>

\* DELETE /:id, up to the await of its write
DeleteCheck(r, cookie, id) ==
  /\ Ready /\ Free(r) /\ Sendable(cookie)
  /\ LET q == Req("delete", cookie)
         p == WithParams(q, id)
         found == SelectByIdSession(table, id, cookie.val)
     IN  req' = [req EXCEPT ![r] =
           IF Rejected("delete", cookie) THEN Reply(q, 401)
           ELSE IF ~ParamsOk(id) THEN Reply(p, 500)
           ELSE IF WhereThrows(cookie) THEN Reply(p, 500)
           ELSE IF found = <<>> THEN [Reply(p, 404) EXCEPT !.reads = 1]
           ELSE [p EXCEPT !.pc = "write", !.reads = 1]]
  /\ UNCHANGED <<table, nextId, nextSession, deleted>>

\* DELETE /:id, its write and its reply
DeleteWrite(r) ==
  /\ Ready /\ req[r].pc = "write" /\ req[r].op = "delete"
  /\ LET q == req[r]
         sid == q.cookie.val
     IN  /\ table' = DelWhere(table, q.id, sid)
         /\ deleted' = deleted \cup {<<q.id, sid>>}
         /\ req' = [req EXCEPT ![r] =
              [Reply(q, 200) EXCEPT
                 !.writes = 1, !.affected = Matching(table, q.id, sid)]]
  /\ UNCHANGED <<nextId, nextSession>>

\* the reply reaches the client, which may then send its next request
Deliver(r) ==
  /\ req[r].pc = "done"
  /\ req' = [req EXCEPT ![r] = Idle]
  /\ UNCHANGED <<table, nextId, nextSession, deleted>>

Init ==
  /\ table = <<>>
  /\ nextId = 0
  /\ nextSession = 0
  /\ deleted = {}
  /\ req = [c \in Slots |-> Idle]

Next ==
  \E r \in Slots :
    \/ Deliver(r)
    \/ UpdateWrite(r)
    \/ DeleteWrite(r)
    \/ \E cookie \in Cookies :
         \/ List(r, cookie)
         \/ Summary(r, cookie)
         \/ \E id \in PathIds : GetOne(r, cookie, id)
         \/ \E id \in PathIds : DeleteCheck(r, cookie, id)
         \/ \E body \in Bodies : Create(r, cookie, body)
         \/ \E id \in PathIds, body \in Bodies : UpdateCheck(r, cookie, id, body)

Spec == Init /\ [][Next]_vars

(* ----------------------------- properties ------------------------------ *)

\* the request in slot r has just been answered
Done(r) == req[r].pc = "done"

\* this step answers the request in slot r
Answers(r) == req[r].pc # "done" /\ req'[r].pc = "done"

\* the positions of the rows held under session sid
Owned(t, sid) == {i \in DOMAIN t : t[i].session_id = sid}

\* the rows with identifier id
WithId(t, id) == {i \in DOMAIN t : t[i].id = id}

RECURSIVE SumOver(_, _)
\* the sum of the stored amounts at the positions S
SumOver(t, S) ==
  IF S = {} THEN 0
  ELSE LET i == CHOOSE j \in S : TRUE
       IN  t[i].amount + SumOver(t, S \ {i})

\* the rows of the other sessions, in order
Foreign(t, sid) == SelectSeq(t, LAMBDA row : row.session_id # sid)

\* the amount a valid body asks to store
Signed(body) ==
  IF body.type.s = "credit" THEN body.amount.n ELSE 0 - body.amount.n

\* C1: a request presenting cookie B is answered only with rows of session B,
\* its summary counts only rows of session B, a list, get-one, summary, update
\* or delete under B leaves every row of another session as it was, and
\* get-one, update and delete on the id of a row of another session answer
\* 404.
C1_SessionIsolation ==
  [][\A r \in Slots :
       (Answers(r) /\ req'[r].cookie.has) =>
         LET q == req'[r]
             B == q.cookie.val
         IN  /\ \A i \in DOMAIN q.rows : q.rows[i].session_id = B
             /\ (q.op = "summary" /\ q.status = 200) =>
                  /\ q.summary.isNull = (Owned(table, B) = {})
                  /\ q.summary.n = SumOver(table, Owned(table, B))
             /\ q.op # "create" => Foreign(table', B) = Foreign(table, B)
             /\ (/\ q.op \in {"get", "update", "delete"}
                 /\ \E i \in WithId(table, q.id) : table[i].session_id # B)
                  => q.status = 404]_vars

\* C1 witness: get-one under one session on the id of a row of another
\* session has answered 404
C1_Witness ==
  \E r \in Slots :
    /\ Done(r) /\ req[r].op = "get" /\ req[r].status = 404
    /\ req[r].cookie.has /\ Owned(table, req[r].cookie.val) # {}
    /\ \E i \in WithId(table, req[r].id) :
         table[i].session_id # req[r].cookie.val

\* C2: after a create answered 201, and after an update answered 200, every
\* row with the written id stores amount for credit and -amount for debit
\* (and the created row exists).
C2_SignAdjustment ==
  \A r \in Slots :
    LET q == req[r]
    IN  /\ (Done(r) /\ q.op = "create" /\ q.status = 201) =>
              /\ WithId(table, q.newId) # {}
              /\ \A i \in WithId(table, q.newId) :
                   table[i].amount = Signed(q.body)
        /\ (Done(r) /\ q.op = "update" /\ q.status = 200) =>
              /\ q.affected = Cardinality(WithId(table, q.id))
              /\ \A i \in WithId(table, q.id) :
                   table[i].amount = Signed(q.body)

\* C2 witness: an update with type debit has rewritten a row
C2_Witness ==
  \E r \in Slots :
    /\ Done(r) /\ req[r].op = "update" /\ req[r].status = 200
    /\ req[r].affected = 1 /\ req[r].body.type.s = "debit"
    /\ \E i \in WithId(table, req[r].id) : table[i].amount < 0

\* C3 (as stated): the amount GET /summary answers is the sum of the stored
\* amounts of the session's rows, and 0 when the session has none.
C3_SummaryZeroWhenEmpty ==
  \A r \in Slots :
    (Done(r) /\ req[r].op = "summary" /\ req[r].status = 200) =>
      /\ ~req[r].summary.isNull
      /\ req[r].summary.n = SumOver(table, Owned(table, req[r].cookie.val))

\* C3 (amended): the amount GET /summary answers is the sum of the stored
\* amounts of the session's rows, and null when the session has none.
C3_SummaryAdditivity ==
  \A r \in Slots :
    (Done(r) /\ req[r].op = "summary" /\ req[r].status = 200) =>
      LET mine == Owned(table, req[r].cookie.val)
      IN  IF mine = {} THEN req[r].summary = NullSum
          ELSE /\ ~req[r].summary.isNull
               /\ req[r].summary.n = SumOver(table, mine)

\* C3 witness: a summary over the two rows of a session, a credit of 5 and a
\* debit of 2, has answered 3
C3_Witness ==
  \E r \in Slots :
    /\ Done(r) /\ req[r].op = "summary" /\ req[r].status = 200
    /\ Cardinality(Owned(table, req[r].cookie.val)) = 2
    /\ ~req[r].summary.isNull /\ req[r].summary.n = 3

\* the handler rejected the path id
IdRejected(q) ==
  q.op \in {"get", "update", "delete"} /\ q.parses >= 1 /\ ~IsUuid(q.id)

\* the handler rejected the body
BodyRejected(q) ==
  /\ \/ q.op = "create" /\ q.parses = 1
     \/ q.op = "update" /\ q.parses = 2
  /\ ~(q.body.title.t = "string" /\ q.body.amount.t = "number"
       /\ q.body.type.s \in {"credit", "debit"})

\* C4: a request whose path id is not a UUID, or whose body fails the schema,
\* is answered 400 with no store read and no store write.
C4_ValidationIs400 ==
  \A r \in Slots :
    (Done(r) /\ (IdRejected(req[r]) \/ BodyRejected(req[r]))) =>
      /\ req[r].status = 400
      /\ req[r].reads = 0
      /\ req[r].writes = 0

\* C5: a list, get-one, summary, update or delete without the cookie is
\* answered 401 before any validator or store call and leaves the table as it
\* was; a create without the cookie is not stopped: its handler runs.
C5_GuardFirst ==
  [][\A r \in Slots :
       (Answers(r) /\ ~req'[r].cookie.has) =>
         IF req'[r].op = "create"
         THEN req'[r].status # 401 /\ req'[r].parses = 1
         ELSE /\ req'[r].status = 401
              /\ req'[r].parses = 0
              /\ req'[r].reads = 0
              /\ req'[r].writes = 0
              /\ table' = table]_vars

\* C5 witness: a list without the cookie has been answered 401 while the
\* table holds rows
C5_Witness ==
  \E r \in Slots :
    /\ Done(r) /\ req[r].op = "list" /\ ~req[r].cookie.has
    /\ req[r].status = 401 /\ table # <<>>

\* C6: a get-one, update or delete that arrives after a delete of the same id
\* under the same session answered 200 is answered 404.
C6_DeleteIsTerminal ==
  \A r \in Slots :
    (Done(r) /\ req[r].afterDel /\ req[r].op \in {"get", "update", "delete"})
      => req[r].status = 404

\* C6 witness: a second delete of a deleted id has been answered
C6_Witness ==
  \E r \in Slots :
    /\ Done(r) /\ req[r].op = "delete" /\ req[r].afterDel
    /\ <<req[r].id, req[r].cookie.val>> \in deleted

\* an identifier no row, past or present, is stored under
Fresh(sid, id) ==
  /\ \A i \in DOMAIN table : table[i].session_id = sid => table[i].id = id
  /\ \A d \in deleted : d[2] # sid

\* C7 (as stated): a create presenting a cookie sets none and stores its row
\* under the cookie's value; a create without the cookie stores it under a
\* fresh identifier and sets that as the cookie.
C7_ReuseAnyPresentedCookie ==
  \A r \in Slots :
    (Done(r) /\ req[r].op = "create" /\ req[r].status = 201) =>
      LET q == req[r]
      IN  IF q.cookie.has
          THEN /\ ~q.setCookie.set
               /\ \A i \in WithId(table, q.newId) :
                    table[i].session_id = q.cookie.val
          ELSE q.setCookie.set

\* C7 (amended): a create presenting a non-empty cookie sets none and stores
\* its row under the cookie's value, issued or not; a create without the
\* cookie, or with an empty one, stores its row under a fresh identifier and
\* sets that as the cookie.
C7_SessionBootstrap ==
  \A r \in Slots :
    (Done(r) /\ req[r].op = "create" /\ req[r].status = 201) =>
      LET q == req[r]
      IN  /\ WithId(table, q.newId) # {}
          /\ \A i \in WithId(table, q.newId) :
               IF q.cookie.has /\ q.cookie.val # ""
               THEN /\ ~q.setCookie.set
                    /\ table[i].session_id = q.cookie.val
               ELSE /\ q.setCookie.set
                    /\ q.setCookie.value = table[i].session_id
                    /\ q.setCookie.value # ""
                    /\ Fresh(q.setCookie.value, q.newId)

\* C7 witness: a second create under a cookie value the server never issued
C7_Witness ==
  \E r \in Slots :
    /\ Done(r) /\ req[r].op = "create" /\ req[r].status = 201
    /\ req[r].cookie = CookieOf("forged") /\ ~req[r].setCookie.set
    /\ Cardinality(Owned(table, "forged")) = 2

\* C8: the cookie a create sets has path '/' and a max-age of 604800 seconds
\* (the maxAge option of setCookie is in seconds).
C8_CookieSevenDays ==
  \A r \in Slots :
    (Done(r) /\ req[r].setCookie.set) =>
      /\ req[r].setCookie.path = "/"
      /\ req[r].setCookie.maxAge = 60 * 60 * 24 * 7

\* C9: the write of an update keeps the number and order of the rows, every
\* row's id and session_id, and every row but the one with the request's id
\* and session; and no step changes the session_id of a row it keeps.
C9_UpdateFrame ==
  [][/\ \A r \in Slots :
          (Answers(r) /\ req[r].pc = "write" /\ req[r].op = "update") =>
            /\ Len(table') = Len(table)
            /\ \A i \in DOMAIN table :
                 /\ table'[i].id = table[i].id
                 /\ table'[i].session_id = table[i].session_id
                 /\ ~(table[i].id = req[r].id
                      /\ table[i].session_id = req[r].cookie.val)
                      => table'[i] = table[i]
     /\ \A i \in DOMAIN table, j \in DOMAIN table' :
          table'[j].id = table[i].id
            => table'[j].session_id = table[i].session_id]_vars

\* C9 witness: an update has rewritten the title of one of two rows of a
\* session
C9_Witness ==
  \E r \in Slots :
    /\ Done(r) /\ req[r].op = "update" /\ req[r].status = 200
    /\ req[r].affected = 1
    /\ Cardinality(Owned(table, req[r].cookie.val)) = 2
    /\ \E i \in DOMAIN table, j \in DOMAIN table :
         table[i].title # table[j].title

\* C10: when a delete of the same id and session has answered 200 after an
\* update's check, the update's write answers 200, changes no row, and leaves
\* no row with that id.
C10_UpdateRace ==
  [][\A r \in Slots :
       (/\ Answers(r) /\ req[r].pc = "write" /\ req[r].op = "update"
        /\ <<req[r].id, req[r].cookie.val>> \in deleted) =>
         /\ req'[r].status = 200
         /\ req'[r].affected = 0
         /\ table' = table
         /\ WithId(table', req[r].id) = {}]_vars

\* C10 witness: an update answered 200 for a row deleted since its check
C10_Witness ==
  \E r \in Slots :
    /\ Done(r) /\ req[r].op = "update" /\ req[r].status = 200
    /\ req[r].affected = 0
    /\ <<req[r].id, req[r].cookie.val>> \in deleted
    /\ WithId(table, req[r].id) = {}

====
